---- MODULE Spec2Model ----
(***************************************************************************)
(* A model of SA-ConvLSTM-Pytorch's own code: the SASeq2Seq module         *)
(* (self_attention_convlstm/seq2seq.py: its constructor, forward and       *)
(* get_attention_maps) and the Moving MNIST ConvLSTM pipeline              *)
(* (pipelines/moving_mnist_pipeline/convlstm.py: data loading, set-up,     *)
(* training with early stopping, evaluation).                              *)
(*                                                                         *)
(* Tensors are modelled by their shape (batch, channels, time, height,     *)
(* width) and, along the time axis, by one token per frame that says which *)
(* input it was computed from, at which time step and after how many       *)
(* modules: enough to tell frames, time steps and shapes apart, which is   *)
(* all the repository's own code decides.                                  *)
(***************************************************************************)
EXTENDS Integers, Sequences, FiniteSets, TLC

\* ------------------------------------------------------------------ bounds
MaxLayers == 3       \* num_layers is drawn from 0..MaxLayers
MaxSeq == 2          \* input_seq_length and an input's time length: 1..MaxSeq
MaxChannels == 2     \* num_channels, num_kernels and an input's channels: 1..MaxChannels
MaxBatch == 1        \* an input's batch size: 1..MaxBatch
MaxForward == 2      \* forward calls per model
MaxEpochs == 5       \* train_epochs of a generic trainer: 1..MaxEpochs
MaxPatience == 3     \* patience of a generic EarlyStopping: 1..MaxPatience
MaxLoss == 2         \* a validation loss, in units of 1e-4: 0..MaxLoss
MaxDelta == 1        \* delta of a generic EarlyStopping, in units of 1e-4: 0..MaxDelta

VARIABLES
    pc,                \* SASeq2Seq: "new" before __init__, "ready" after
    self,              \* the attributes __init__ stores
    sequential,        \* self.sequential._modules, in order: <<[name, module]>>
    add_calls,         \* the names handed to add_module, in call order
    attention_scores,  \* module id -> that SAConvLSTM's attention_scores
    calls,             \* forward calls made so far
    X,                 \* the argument of the most recent forward
    fstatus,           \* "none" | "returned" | "raised": how that forward ended
    output,            \* its local `output`
    y,                 \* what it returned
    mstatus,           \* "none" | "fresh" | "stale": get_attention_maps' last result
    maps,              \* the dictionary get_attention_maps returned last
    ppc,               \* main(): the pipeline's position
    config,            \* train_epochs, patience, delta
    early_stopping,    \* the EarlyStopping object
    epoch,             \* epochs the trainer has run
    valid_losses       \* the validation loss of each epoch run

modelVars == <<pc, self, sequential, add_calls, attention_scores, calls, X, fstatus,
               output, y, mstatus, maps>>
pipelineVars == <<ppc, config, early_stopping, epoch, valid_losses>>
vars == <<pc, self, sequential, add_calls, attention_scores, calls, X, fstatus,
          output, y, mstatus, maps, ppc, config, early_stopping, epoch, valid_losses>>

\* ------------------------------------------------------------------ tensors
FrameSize == <<1, 1>>

Tensor(shape, data) == [shape |-> shape, data |-> data]

NoTensor == Tensor(<<0, 0, 0, 0, 0>>, <<>>)

\* An input tensor: frame t carries (src, t, stage 0).
InputTensor(src, B, C, T) ==
    Tensor(<<B, C, T, FrameSize[1], FrameSize[2]>>,
           [t \in 1..T |-> [src |-> src, t |-> t, stage |-> 0]])

\* A module's output keeps each frame at its time step and marks one more stage.
Through(tensor, channels) ==
    Tensor([tensor.shape EXCEPT ![2] = channels],
           [t \in 1..Len(tensor.data) |->
               [tensor.data[t] EXCEPT !.stage = tensor.data[t].stage + 1]])

\* ------------------------------------------------------------------ modules
Name(base, idx) == [base |-> base, idx |-> idx]

NoShape == <<0, 0, 0, 0>>

SAConvLSTM(id, in_channels, out_channels) ==
    [cls |-> "SAConvLSTM", id |-> id, in_channels |-> in_channels,
     out_channels |-> out_channels, normalized_shape |-> NoShape]

LayerNorm(id, normalized_shape) ==
    [cls |-> "LayerNorm", id |-> id, in_channels |-> 0, out_channels |-> 0,
     normalized_shape |-> normalized_shape]

Conv3d(id, in_channels, out_channels) ==
    [cls |-> "Conv3d", id |-> id, in_channels |-> in_channels,
     out_channels |-> out_channels, normalized_shape |-> NoShape]

Sigmoid(id) ==
    [cls |-> "Sigmoid", id |-> id, in_channels |-> 0, out_channels |-> 0,
     normalized_shape |-> NoShape]

\* nn.Module.add_module: _modules[name] = module. _modules is an ordered
\* dictionary: a new name goes last, a name already there keeps its place and
\* has its module replaced. The call is logged in `log`.
add_module(b, name, module) ==
    [modules |->
        IF \E i \in 1..Len(b.modules) : b.modules[i].name = name
        THEN [i \in 1..Len(b.modules) |->
                IF b.modules[i].name = name
                THEN [name |-> name, module |-> module]
                ELSE b.modules[i]]
        ELSE Append(b.modules, [name |-> name, module |-> module]),
     log |-> Append(b.log, name)]

\* The module id a new module gets: its place in creation order.
NextId(b) == Len(b.log) + 1

\* ------------------------------------------------------------------ SASeq2Seq.__init__
\* num_kernels of the models built here.
NumKernels == MaxChannels

\* The constructor's arguments that its own code reads. out_channels is a set:
\* {} for None, {c} for the integer c.
Params ==
    [num_channels : 1..MaxChannels, num_kernels : {NumKernels},
     num_layers : 0..MaxLayers, input_seq_length : 1..MaxSeq,
     out_channels : {{}, {1}}, return_sequences : BOOLEAN]

\* self.out_channels = out_channels if out_channels is not None else num_channels
OutChannels(p) ==
    IF p.out_channels = {} THEN p.num_channels ELSE CHOOSE c \in p.out_channels : TRUE

NormalizedShape(p) ==
    <<p.num_kernels, p.input_seq_length, FrameSize[1], FrameSize[2]>>

RECURSIVE RestOfLayers(_, _, _)
\* for layer_idx in range(2, num_layers + 1): add sa_convlstm<idx>, layernorm<idx>
RestOfLayers(b, layer_idx, p) ==
    IF layer_idx >= p.num_layers + 1
    THEN b
    ELSE LET b1 == add_module(b, Name("sa_convlstm", layer_idx),
                              SAConvLSTM(NextId(b), p.num_kernels, p.num_kernels))
             b2 == add_module(b1, Name("layernorm", layer_idx),
                              LayerNorm(NextId(b1), NormalizedShape(p)))
         IN  RestOfLayers(b2, layer_idx + 1, p)

\* The body of __init__ from self.sequential = nn.Sequential() on.
BuildSequential(p) ==
    LET b0 == [modules |-> <<>>, log |-> <<>>]
        b1 == add_module(b0, Name("sa_convlstm", 1),
                         SAConvLSTM(NextId(b0), p.num_channels, p.num_kernels))
        b2 == add_module(b1, Name("layernorm", 1),
                         LayerNorm(NextId(b1), NormalizedShape(p)))
        b3 == RestOfLayers(b2, 2, p)
        b4 == add_module(b3, Name("conv3d", 0),
                         Conv3d(NextId(b3), p.num_kernels, OutChannels(p)))
    IN  add_module(b4, Name("sigmoid", 0), Sigmoid(NextId(b4)))

\* A SAConvLSTM's attention_scores before its first forward.
NoScores == [call |-> 0, id |-> 0]

\* ------------------------------------------------------------------ SASeq2Seq.forward
\* SAConvLSTM.forward on `tensor` during forward call `call`: it raises on a
\* channel mismatch, else keeps batch, time and frame size, gives out_channels
\* channels and leaves its attention scores in the module.
SAConvLSTM_forward(m, tensor, call) ==
    IF tensor.shape[2] # m.in_channels
    THEN [raised |-> TRUE, tensor |-> NoTensor, scored |-> FALSE, scores |-> NoScores]
    ELSE [raised |-> FALSE, tensor |-> Through(tensor, m.out_channels),
          scored |-> TRUE, scores |-> [call |-> call, id |-> m.id]]

\* One module of self.sequential applied to `tensor`.
Apply(m, tensor, call) ==
    CASE m.cls = "SAConvLSTM" -> SAConvLSTM_forward(m, tensor, call)
      [] m.cls = "LayerNorm" ->
            \* the input's trailing axes must be normalized_shape
            IF <<tensor.shape[2], tensor.shape[3], tensor.shape[4], tensor.shape[5]>>
                   # m.normalized_shape
            THEN [raised |-> TRUE, tensor |-> NoTensor, scored |-> FALSE,
                  scores |-> NoScores]
            ELSE [raised |-> FALSE, tensor |-> Through(tensor, tensor.shape[2]),
                  scored |-> FALSE, scores |-> NoScores]
      [] m.cls = "Conv3d" ->
            \* kernel (3, 3, 3) with padding "same" keeps time, height and width
            IF tensor.shape[2] # m.in_channels
            THEN [raised |-> TRUE, tensor |-> NoTensor, scored |-> FALSE,
                  scores |-> NoScores]
            ELSE [raised |-> FALSE, tensor |-> Through(tensor, m.out_channels),
                  scored |-> FALSE, scores |-> NoScores]
      [] OTHER ->
            [raised |-> FALSE, tensor |-> Through(tensor, tensor.shape[2]),
             scored |-> FALSE, scores |-> NoScores]

RECURSIVE RunFrom(_, _, _, _, _)
\* self.sequential(X): the modules in order, each on the previous one's output;
\* a module that raises ends the call, the earlier ones' effects staying.
RunFrom(mods, i, tensor, attn, call) ==
    IF i > Len(mods)
    THEN [status |-> "returned", tensor |-> tensor, attn |-> attn]
    ELSE LET r == Apply(mods[i].module, tensor, call)
         IN  IF r.raised
             THEN [status |-> "raised", tensor |-> NoTensor, attn |-> attn]
             ELSE RunFrom(mods, i + 1, r.tensor,
                          IF r.scored
                          THEN [attn EXCEPT ![mods[i].module.id] = r.scores]
                          ELSE attn,
                          call)

\* Python's s[start:] on a sequence of length n: a negative start counts from
\* the end and is clamped at 0, a start past the end gives the empty sequence.
SliceFrom(s, start) ==
    LET n == Len(s)
        lo == IF start < 0
              THEN (IF start + n < 0 THEN 0 ELSE start + n)
              ELSE (IF start > n THEN n ELSE start)
    IN  [k \in 1..(n - lo) |-> s[lo + k]]

\* output[:, :, 0:1, ...]: the first time step instead of the last.
FirstStep(out) ==
    LET data == IF Len(out.data) = 0 THEN <<>> ELSE <<out.data[1]>>
    IN  Tensor([out.shape EXCEPT ![3] = Len(data)], data)

\* output[:, :, -1:, ...]: axis 2 sliced from -1, every other axis whole.
LastStep(out) ==
    LET data == SliceFrom(out.data, -1)
    IN  Tensor([out.shape EXCEPT ![3] = Len(data)], data)

\* forward's return value, given the output of self.sequential.
Returned(return_sequences, out) ==
    IF return_sequences = TRUE THEN out ELSE LastStep(out)

\* forward(X) as call number `call` on a model with attributes slf.
forward(slf, mods, attn, Xin, call) ==
    LET run == RunFrom(mods, 1, Xin, attn, call)
    IN  [status |-> run.status,
         output |-> run.tensor,
         y      |-> IF run.status = "returned"
                    THEN Returned(slf.return_sequences, run.tensor)
                    ELSE NoTensor,
         attn   |-> run.attn]

\* ------------------------------------------------------------------ get_attention_maps
\* named_modules(): the model itself, self.sequential, then each child of
\* self.sequential under the name "sequential.<child>", each followed by its
\* own submodules. A SAConvLSTM holds one cell; the other children hold none.
NamedModules(mods) ==
    LET top == <<[path |-> <<"">>, base |-> "", idx |-> 0, cls |-> "SASeq2Seq", id |-> 0],
                 [path |-> <<"sequential">>, base |-> "", idx |-> 0,
                  cls |-> "Sequential", id |-> 0]>>
        Child(e) == [path |-> <<"sequential">>, base |-> e.name.base,
                     idx |-> e.name.idx, cls |-> e.module.cls, id |-> e.module.id]
        Cell(e) == [path |-> <<"sequential", "sa_convlstm_cell">>, base |-> e.name.base,
                    idx |-> e.name.idx, cls |-> "SAConvLSTMCell", id |-> e.module.id]
        F[i \in 0..Len(mods)] ==
            IF i = 0 THEN top
            ELSE IF mods[i].module.cls = "SAConvLSTM"
                 THEN F[i - 1] \o <<Child(mods[i]), Cell(mods[i])>>
                 ELSE Append(F[i - 1], Child(mods[i]))
    IN  F[Len(mods)]

\* The (name, module) pairs whose class is named "SAConvLSTM".
sa_convlstm_modules(mods) ==
    SelectSeq(NamedModules(mods), LAMBDA e : e.cls = "SAConvLSTM")

\* {name: module.attention_scores for name, module in sa_convlstm_modules}:
\* a later pair of the same name replaces the earlier one's value.
get_attention_maps(mods, attn) ==
    LET found == sa_convlstm_modules(mods)
        keys == {[path |-> found[i].path, base |-> found[i].base, idx |-> found[i].idx] :
                    i \in 1..Len(found)}
        LastOf(k) == CHOOSE i \in 1..Len(found) :
                        /\ [path |-> found[i].path, base |-> found[i].base,
                            idx |-> found[i].idx] = k
                        /\ \A j \in (i + 1)..Len(found) :
                              [path |-> found[j].path, base |-> found[j].base,
                               idx |-> found[j].idx] # k
    IN  [k \in keys |-> attn[found[LastOf(k)].id]]

\* ------------------------------------------------------------------ the pipeline's parameters
\* main(): train_epochs = 1; EarlyStopping(patience=30, delta=0.0001). Losses and
\* delta are counted in units of 1e-4.
train_epochs == 1
patience == 30
delta == 1

\* main() with train_epochs = 2 in place of 1.
PipelineConfig_TwoEpochs ==
    [train_epochs |-> train_epochs + 1, patience |-> patience, delta |-> delta]

PipelineConfig ==
    [train_epochs |-> train_epochs, patience |-> patience, delta |-> delta]

\* The configurations a Trainer and an EarlyStopping are run with here: the
\* pipeline's own and small ones in which early stopping can fire.
Configs ==
    {PipelineConfig} \cup
    [train_epochs : 1..MaxEpochs, patience : 1..MaxPatience, delta : 0..MaxDelta]

\* ------------------------------------------------------------------ EarlyStopping
\* EarlyStopping(patience, delta): nothing seen yet. best is {} for None.
EarlyStopping(cfg) ==
    [patience |-> cfg.patience, delta |-> cfg.delta, counter |-> 0, best |-> {},
     early_stop |-> FALSE]

\* early_stopping(valid_loss) with the patience test off by one: early_stop is
\* set one epoch without improvement too late.
EarlyStopping_call_LatePatience(es, valid_loss) ==
    LET best == CHOOSE b \in es.best : TRUE
    IN  IF es.best = {}
        THEN [es EXCEPT !.best = {valid_loss}]
        ELSE IF best - valid_loss > es.delta
        THEN [es EXCEPT !.best = {valid_loss}, !.counter = 0]
        ELSE [es EXCEPT !.counter = es.counter + 1,
                        !.early_stop = (es.counter + 1 > es.patience)]

\* early_stopping(valid_loss): the first value, and a value better than the best
\* one by more than delta, becomes the best one and sets the counter to zero;
\* any other value counts one more epoch without improvement, and the patience-th
\* such epoch in a row sets early_stop.
EarlyStopping_call(es, valid_loss) ==
    LET best == CHOOSE b \in es.best : TRUE
    IN  IF es.best = {}
        THEN [es EXCEPT !.best = {valid_loss}]
        ELSE IF best - valid_loss > es.delta
        THEN [es EXCEPT !.best = {valid_loss}, !.counter = 0]
        ELSE [es EXCEPT !.counter = es.counter + 1,
                        !.early_stop = (es.counter + 1 >= es.patience)]

\* Trainer.run's loop condition: another epoch is run while fewer than
\* train_epochs have been and early stopping has not fired.
TrainerContinues(cfg, es, epochs) ==
    epochs < cfg.train_epochs /\ ~es.early_stop

\* ------------------------------------------------------------------ initial state
NoSelf ==
    [num_channels |-> 0, num_kernels |-> 0, num_layers |-> 0, input_seq_length |-> 0,
     out_channels |-> 0, return_sequences |-> FALSE]

ModelInit ==
    /\ pc = "new"
    /\ self = NoSelf
    /\ sequential = <<>>
    /\ add_calls = <<>>
    /\ attention_scores = <<>>
    /\ calls = 0
    /\ X = NoTensor
    /\ fstatus = "none"
    /\ output = NoTensor
    /\ y = NoTensor
    /\ mstatus = "none"
    /\ maps = <<>>

\* main() not started; config is what it will run with.
MainInit(cfgs) ==
    /\ ppc = "start"
    /\ config \in cfgs
    /\ early_stopping = EarlyStopping([patience |-> 0, delta |-> 0])
    /\ epoch = 0
    /\ valid_losses = <<>>

Init == ModelInit /\ MainInit({PipelineConfig})

InitPipeline == ModelInit /\ MainInit(Configs)

\* ------------------------------------------------------------------ SASeq2Seq's operations
\* model = SASeq2Seq(...)
Construct ==
    /\ pc = "new"
    /\ \E p \in Params :
          LET b == BuildSequential(p)
          IN  /\ self' = [p EXCEPT !.out_channels = OutChannels(p)]
              /\ sequential' = b.modules
              /\ add_calls' = b.log
              /\ attention_scores' = [i \in 1..Len(b.log) |-> NoScores]
    /\ pc' = "ready"
    /\ UNCHANGED <<calls, X, fstatus, output, y, mstatus, maps>>
    /\ UNCHANGED pipelineVars

\* model.forward(X), X of any batch size, channel count and time length from 1
\* up (a tensor with an empty time axis is not considered), frames of frame_size.
Forward ==
    /\ pc = "ready"
    /\ calls < MaxForward
    /\ \E B \in 1..MaxBatch, C \in 1..MaxChannels, T \in 1..MaxSeq :
          LET Xin == InputTensor(calls + 1, B, C, T)
              r == forward(self, sequential, attention_scores, Xin, calls + 1)
          IN  /\ X' = Xin
              /\ fstatus' = r.status
              /\ output' = r.output
              /\ y' = r.y
              /\ attention_scores' = r.attn
    /\ calls' = calls + 1
    /\ mstatus' = IF mstatus = "none" THEN "none" ELSE "stale"
    /\ UNCHANGED <<pc, self, sequential, add_calls, maps>>
    /\ UNCHANGED pipelineVars

\* model.get_attention_maps()
GetAttentionMaps ==
    /\ pc = "ready"
    /\ maps' = get_attention_maps(sequential, attention_scores)
    /\ mstatus' = "fresh"
    /\ UNCHANGED <<pc, self, sequential, add_calls, attention_scores, calls, X, fstatus,
                   output, y>>
    /\ UNCHANGED pipelineVars

\* ------------------------------------------------------------------ main()
\* data_loaders = MovingMNISTDataLoaders(train_batch_size, input_frames=...)
LoadData ==
    /\ ppc = "start"
    /\ ppc' = "loaded"
    /\ UNCHANGED <<config, early_stopping, epoch, valid_losses>>
    /\ UNCHANGED modelVars

\* the criteria, the model, the optimizer and early_stopping = EarlyStopping(...)
SetupTraining ==
    /\ ppc = "loaded"
    /\ early_stopping' = EarlyStopping(config)
    /\ ppc' = "setup"
    /\ UNCHANGED <<config, epoch, valid_losses>>
    /\ UNCHANGED modelVars

\* trainer = Trainer(...); trainer.run() is entered
StartTraining ==
    /\ ppc = "setup"
    /\ epoch' = 0
    /\ valid_losses' = <<>>
    /\ ppc' = "training"
    /\ UNCHANGED <<config, early_stopping>>
    /\ UNCHANGED modelVars

\* one epoch of trainer.run(): train, validate, early_stopping(valid_loss)
TrainEpoch ==
    /\ ppc = "training"
    /\ TrainerContinues(config, early_stopping, epoch)
    /\ \E valid_loss \in 0..MaxLoss :
          /\ valid_losses' = Append(valid_losses, valid_loss)
          /\ early_stopping' = EarlyStopping_call(early_stopping, valid_loss)
    /\ epoch' = epoch + 1
    /\ UNCHANGED <<ppc, config>>
    /\ UNCHANGED modelVars

\* trainer.run() returns
FinishTraining ==
    /\ ppc = "training"
    /\ ~TrainerContinues(config, early_stopping, epoch)
    /\ ppc' = "trained"
    /\ UNCHANGED <<config, early_stopping, epoch, valid_losses>>
    /\ UNCHANGED modelVars

\* evaluator = Evaluator(...); evaluator.run()
Evaluate ==
    /\ ppc = "trained"
    /\ ppc' = "done"
    /\ UNCHANGED <<config, early_stopping, epoch, valid_losses>>
    /\ UNCHANGED modelVars

\* ------------------------------------------------------------------ specifications
Next == Construct \/ Forward \/ GetAttentionMaps

Spec == Init /\ [][Next]_vars

NextPipeline ==
    LoadData \/ SetupTraining \/ StartTraining \/ TrainEpoch \/ FinishTraining \/ Evaluate

\* main() is one sequential program: it takes its next step as long as it has one.
Pipeline == InitPipeline /\ [][NextPipeline]_vars /\ WF_vars(NextPipeline)

\* ------------------------------------------------------------------ C2
Key(e) == [path |-> <<"sequential">>, base |-> e.name.base, idx |-> e.name.idx]

SAConvLSTMEntries ==
    {i \in 1..Len(sequential) : sequential[i].module.cls = "SAConvLSTM"}

\* What C2 says of a model built with n layers.
BuiltWith(n) ==
    /\ Cardinality(SAConvLSTMEntries) = n
    /\ Len(sequential) = 2 * n + 2
    /\ \A i \in 1..n :
          /\ sequential[2 * i - 1].name = Name("sa_convlstm", i)
          /\ sequential[2 * i - 1].module.cls = "SAConvLSTM"
          /\ sequential[2 * i].name = Name("layernorm", i)
          /\ sequential[2 * i].module.cls = "LayerNorm"
    /\ sequential[2 * n + 1].name = Name("conv3d", 0)
    /\ sequential[2 * n + 1].module.cls = "Conv3d"
    /\ sequential[2 * n + 2].name = Name("sigmoid", 0)
    /\ sequential[2 * n + 2].module.cls = "Sigmoid"
    /\ Len(add_calls) = Len(sequential)
    /\ \A i, j \in 1..Len(add_calls) : i # j => add_calls[i] # add_calls[j]

\* C2: for every num_layers passed to the constructor, the built sequential
\* holds exactly num_layers SAConvLSTM modules named sa_convlstm1 ..
\* sa_convlstm<num_layers>, no name added twice, each followed by the LayerNorm
\* of its index, then one conv3d and one sigmoid: 2 * num_layers + 2 modules.
C2_NumLayersIsTheNumberOfLayers ==
    pc = "ready" => BuiltWith(self.num_layers)

\* C2 where the constructor's unconditional first layer is within num_layers.
C2_HoldsFromOneLayerOn ==
    (pc = "ready" /\ self.num_layers >= 1) => BuiltWith(self.num_layers)

\* ------------------------------------------------------------------ C6
\* What C6 says of the dictionary get_attention_maps returned last, while no
\* forward call has been made since.
MapsAsClaimed ==
    /\ Cardinality(DOMAIN maps) = self.num_layers
    /\ DOMAIN maps = {Key(sequential[i]) : i \in SAConvLSTMEntries}
    /\ \A i, j \in SAConvLSTMEntries :
          i # j => Key(sequential[i]) # Key(sequential[j])
    /\ \A i \in SAConvLSTMEntries :
          /\ maps[Key(sequential[i])] = attention_scores[sequential[i].module.id]
          /\ (fstatus = "returned") =>
                maps[Key(sequential[i])] =
                    [call |-> calls, id |-> sequential[i].module.id]

\* C6: get_attention_maps returns one entry per SAConvLSTM layer and none for
\* the other modules, num_layers entries in all, under pairwise distinct module
\* names, each the layer's current attention_scores, which after forward calls
\* are those of the most recent one; and the call changes no state of the model.
C6_AttentionMapsOnePerLayer ==
    /\ [](mstatus = "fresh" => MapsAsClaimed)
    /\ [][GetAttentionMaps =>
             UNCHANGED <<pc, self, sequential, add_calls, attention_scores, calls, X,
                         fstatus, output, y>>]_vars

\* C6 where the constructor's unconditional first layer is within num_layers.
C6_HoldsFromOneLayerOn ==
    (mstatus = "fresh" /\ self.num_layers >= 1) => MapsAsClaimed

\* ------------------------------------------------------------------ C5
\* What forward returns for the most recent input with return_sequences set to rs.
ForwardWith(rs) ==
    forward([self EXCEPT !.return_sequences = rs], sequential, attention_scores, X, calls).y

\* C5: forward returns the whole output of sequential, whose time axis is as
\* long as the input's, when return_sequences is True, and otherwise only the
\* last time step of that output with the time axis kept, at length 1; the
\* result with False is the last time step of the result with True, the other
\* four axes being the same in both.
C5_ForwardSelectsByReturnSequences ==
    fstatus = "returned" =>
        LET whole == ForwardWith(TRUE)
            last == ForwardWith(FALSE)
            T == X.shape[3]
        IN  /\ output.shape[3] = T
            /\ Len(output.data) = T
            /\ \A t \in 1..T : output.data[t].t = t /\ output.data[t].src = calls
            /\ whole = output
            /\ y = IF self.return_sequences = TRUE THEN whole ELSE last
            /\ Len(last.shape) = 5
            /\ last.shape = [whole.shape EXCEPT ![3] = 1]
            /\ last.data = <<whole.data[T]>>

\* A forward call with return_sequences False has returned the last of several
\* time steps of a model of several layers.
C5_Witness ==
    /\ fstatus = "returned"
    /\ self.return_sequences = FALSE
    /\ self.num_layers >= 2
    /\ X.shape[3] >= 2
    /\ Len(y.data) = 1
    /\ y.data[1].t = X.shape[3]

\* ------------------------------------------------------------------ C1
RECURSIVE BestAfter(_, _, _)
\* The best value so far after epoch k of the losses h: the first loss, then
\* each loss that is better than the best one before it by more than d.
BestAfter(h, k, d) ==
    IF k = 1
    THEN h[1]
    ELSE LET b == BestAfter(h, k - 1, d)
         IN  IF b - h[k] > d THEN h[k] ELSE b

\* Epoch k improves on the best value so far by more than d (the first epoch
\* has nothing to improve on and counts as an improvement).
Improves(h, k, d) == k = 1 \/ BestAfter(h, k - 1, d) - h[k] > d

\* The number of consecutive epochs without improvement that end with epoch k.
Streak(h, k, d) ==
    Cardinality({j \in 1..k : \A i \in j..k : ~Improves(h, i, d)})

\* patience consecutive epochs without improvement have passed at epoch k.
Exhausted(h, k, cfg) == Streak(h, k, cfg.delta) >= cfg.patience

TrainingBounded ==
    /\ epoch <= config.train_epochs
    /\ ppc \in {"trained", "done"} =>
          \/ early_stopping.early_stop /\ epoch <= config.train_epochs
          \/ ~early_stopping.early_stop /\ epoch = config.train_epochs
    /\ config = PipelineConfig =>
          /\ ~early_stopping.early_stop
          /\ ppc \in {"trained", "done"} => epoch = 1

====
